---- MODULE Spec2Model ----
(***************************************************************************)
(* gitgrab: the repository synchronisation engine (CloneRepo) and the      *)
(* helpers it uses.  Go strings are modelled as sequences of one-character *)
(* strings, so that formatting, trimming and comparison are computed on    *)
(* the characters.                                                         *)
(***************************************************************************)
EXTENDS Integers, Sequences, FiniteSets, TLC

VARIABLES
    disk,   \* target path -> what os.Stat and git find there
    run,    \* the base directory, token, organization and method of this run
    last,   \* the latest CloneRepo call: its config and path, the path's state
            \* when called, the subprocesses it ran in order with the terminal
            \* one's exit status, the lines it printed and the error it returned
    server, \* the listing endpoint: the pages it holds for the organization
            \* and the page it answers past them
    fetch,  \* FetchAllRepos: its position, page, allRepos, the requests it
            \* has issued and its return values
    parse,  \* ParseCloneMethod: its argument and, once called, its results
    cli     \* the command: its position, loop index, counters and exit code

vars == <<disk, run, last, server, fetch, parse, cli>>

---------------------------------------------------------------------------
(* Bounds and input alphabets *)

MaxTokenLen == 2

MaxPages == 2

MaxPageLen == 2

MaxFlagLen == 3

MaxRequests == 4

TokenChars == {"g", "@"}

NonEmptySeqs(S, n) == UNION {[1..k -> S] : k \in 1..n}

---------------------------------------------------------------------------
(* String literals of the source *)

Slash == <<"/">>
Dot == <<".">>
DotDot == <<".", ".">>
Newline == <<"\n">>
HttpsScheme == <<"h", "t", "t", "p", "s", ":", "/", "/">>
AtGitHub == <<"@", "g", "i", "t", "h", "u", "b", ".", "c", "o", "m", "/">>
GitHubHost == <<"g", "i", "t", "h", "u", "b", ".", "c", "o", "m">>
GitAt == <<"g", "i", "t", "@">>
DotGit == <<".", "g", "i", "t">>
Colon == <<":">>

Main == <<"m", "a", "i", "n">>
MainUpper == <<"M", "a", "i", "n">>
Dev == <<"d", "e", "v">>
NoBranch == <<>>

---------------------------------------------------------------------------
(* Domain types *)

CloneMethodSSH == 0
CloneMethodHTTP == 1
CloneMethod == {CloneMethodSSH, CloneMethodHTTP}

GitHubToken == NonEmptySeqs(TokenChars, MaxTokenLen)
OrganizationName == {<<"o">>, <<"g">>}
RepositoryName == {<<"r">>, <<"g">>}
BranchName == {NoBranch, Main}
TargetDir == <<"d">>

\* The record the listing API returns for repository `name` of `org`.
Repo(org, name, private, branch) ==
    [Name |-> name,
     CloneURL |-> HttpsScheme \o GitHubHost \o Slash \o org \o Slash \o name \o DotGit,
     SSHURL |-> GitAt \o GitHubHost \o Colon \o org \o Slash \o name \o DotGit,
     Private |-> private,
     DefaultBranch |-> branch]

\* What one run passes to every CloneRepo call besides the repository
RunConfig ==
    [TargetDir : {TargetDir}, Token : GitHubToken,
     Organization : OrganizationName, Method : CloneMethod]

Repository(org) ==
    {Repo(org, n, p, b) : n \in RepositoryName, p \in BOOLEAN, b \in BranchName}

CloneConfig(r, repo) ==
    [Repository |-> repo, TargetDir |-> r.TargetDir, Token |-> r.Token,
     Organization |-> r.Organization, Method |-> r.Method]

---------------------------------------------------------------------------
(* strings.ToLower, on the letters *)

UpperLetters == <<"A", "B", "C", "D", "E", "F", "G", "H", "I", "J", "K", "L", "M",
                  "N", "O", "P", "Q", "R", "S", "T", "U", "V", "W", "X", "Y", "Z">>
LowerLetters == <<"a", "b", "c", "d", "e", "f", "g", "h", "i", "j", "k", "l", "m",
                  "n", "o", "p", "q", "r", "s", "t", "u", "v", "w", "x", "y", "z">>

LowerChar(c) ==
    IF \E i \in 1..Len(UpperLetters) : UpperLetters[i] = c
    THEN LowerLetters[CHOOSE i \in 1..Len(UpperLetters) : UpperLetters[i] = c]
    ELSE c

ToLower(s) == [i \in 1..Len(s) |-> LowerChar(s[i])]

Ssh == <<"s", "s", "h">>
Http == <<"h", "t", "t", "p">>
Rsync == <<"r", "s", "y", "n", "c">>

NoParseError == [invalid |-> FALSE]

\* "invalid clone method: %s, defaulting to ssh"
ParseError(s) == [invalid |-> TRUE, input |-> s]

\* the switch on the string as given
ParseCloneMethodExact(s) ==
    IF s = Ssh THEN [method |-> CloneMethodSSH, err |-> NoParseError]
    ELSE IF s = Http THEN [method |-> CloneMethodHTTP, err |-> NoParseError]
    ELSE [method |-> CloneMethodSSH, err |-> ParseError(s)]

\* switch strings.ToLower(s)
ParseCloneMethod(s) ==
    LET l == ToLower(s)
    IN IF l = Ssh THEN [method |-> CloneMethodSSH, err |-> NoParseError]
       ELSE IF l = Http THEN [method |-> CloneMethodHTTP, err |-> NoParseError]
       ELSE [method |-> CloneMethodSSH, err |-> ParseError(s)]

---------------------------------------------------------------------------
(* strings.TrimSpace *)

IsSpace(c) == c \in {" ", "\n", "\t", "\r"}

RECURSIVE TrimLeft(_)
TrimLeft(s) ==
    IF s # <<>> /\ IsSpace(Head(s)) THEN TrimLeft(Tail(s)) ELSE s

RECURSIVE TrimRight(_)
TrimRight(s) ==
    IF s # <<>> /\ IsSpace(s[Len(s)]) THEN TrimRight(SubSeq(s, 1, Len(s) - 1)) ELSE s

TrimSpace(s) == TrimRight(TrimLeft(s))

---------------------------------------------------------------------------
(* filepath.Join: the non-empty elements joined by "/", then Clean *)

\* the elements of s between its separators, empty ones included
SplitPath(s) ==
    LET seps == {i \in 1..Len(s) : s[i] = "/"}
        n == Cardinality(seps)
        sep(k) == IF k = 0 THEN 0
                  ELSE IF k = n + 1 THEN Len(s) + 1
                  ELSE CHOOSE i \in seps : Cardinality({j \in seps : j < i}) = k - 1
    IN [k \in 1..(n + 1) |-> SubSeq(s, sep(k - 1) + 1, sep(k) - 1)]

\* Clean's pass over the elements: "" and "." are dropped, ".." removes the
\* element before it, is dropped at the root and is kept at the front otherwise
RECURSIVE CleanAcc(_, _, _, _)
CleanAcc(comps, i, stack, rooted) ==
    IF i > Len(comps) THEN stack
    ELSE LET c == comps[i]
         IN IF c = <<>> \/ c = Dot THEN CleanAcc(comps, i + 1, stack, rooted)
            ELSE IF c = DotDot
                 THEN IF stack # <<>> /\ stack[Len(stack)] # DotDot
                      THEN CleanAcc(comps, i + 1, SubSeq(stack, 1, Len(stack) - 1), rooted)
                      ELSE IF rooted THEN CleanAcc(comps, i + 1, stack, rooted)
                      ELSE CleanAcc(comps, i + 1, Append(stack, c), rooted)
                 ELSE CleanAcc(comps, i + 1, Append(stack, c), rooted)

RECURSIVE JoinSlash(_)
JoinSlash(comps) ==
    IF comps = <<>> THEN <<>>
    ELSE IF Len(comps) = 1 THEN comps[1]
    ELSE comps[1] \o Slash \o JoinSlash(Tail(comps))

Clean(path) ==
    IF path = <<>> THEN Dot
    ELSE LET rooted == path[1] = "/"
             body == JoinSlash(CleanAcc(SplitPath(path), 1, <<>>, rooted))
         IN IF rooted THEN Slash \o body
            ELSE IF body = <<>> THEN Dot ELSE body

Join(dir, name) ==
    IF dir = <<>> /\ name = <<>> THEN <<>>
    ELSE IF dir = <<>> THEN Clean(name)
    ELSE IF name = <<>> THEN Clean(dir)
    ELSE Clean(dir \o Slash \o name)

---------------------------------------------------------------------------
(* The local state of a target path, as os.Stat and git observe it *)

Heads == {NoBranch, Main, MainUpper, Dev}

Absent == [kind |-> "absent", head |-> NoBranch]
Inaccessible == [kind |-> "inaccessible", head |-> NoBranch]
Undeterminable == [kind |-> "undeterminable", head |-> NoBranch]
Checkout(h) == [kind |-> "repo", head |-> h]

LocalState == {Absent, Inaccessible, Undeterminable} \cup {Checkout(h) : h \in Heads}

Paths == {Join(TargetDir, n) : n \in RepositoryName}

\* the existence check dropped: every path counts as present
StatOKUnchecked(d) == TRUE

\* the existence check never succeeding: every path counts as absent
StatOKNever(d) == FALSE

\* only a checkout with a readable branch counted as present
StatOKRepoOnly(d) == d.kind = "repo" /\ d.head # <<>>

\* every path that exists counted as present, whatever os.Stat returns
StatOKExists(d) == d.kind # "absent"

\* os.Stat(repoPath) returns err == nil
StatOK(d) == d.kind \in {"undeterminable", "repo"}

\* git -C repoPath branch --show-current: exit status and standard output
BranchShowCurrent(d) ==
    IF d.kind = "repo" THEN [err |-> FALSE, output |-> d.head \o Newline]
    ELSE [err |-> TRUE, output |-> <<>>]

getCurrentBranch(d) ==
    LET o == BranchShowCurrent(d)
    IN IF o.err THEN [err |-> TRUE, branch |-> <<>>]
       ELSE [err |-> FALSE, branch |-> TrimSpace(o.output)]

---------------------------------------------------------------------------
(* Subprocess invocations: the verb stands for the fixed words of argv,    *)
(* args are the words that vary                                            *)

GitClone(url, path) == [verb |-> "clone", args |-> <<url, path>>]
GitBranch(path) == [verb |-> "branch", args |-> <<path>>]
GitPull(path) == [verb |-> "pull", args |-> <<path>>]
GitFetch(path) == [verb |-> "fetch", args |-> <<path>>]

NoError == [failed |-> "none", name |-> <<>>]
Failed(verb, name) == [failed |-> verb, name |-> name]

\* a failed command run a second time
RunGitRetry(cmd, name, done, exitZero) ==
    IF exitZero
    THEN [cmds |-> <<cmd>>, out |-> done, err |-> NoError]
    ELSE [cmds |-> <<cmd, cmd>>, out |-> <<>>, err |-> Failed(cmd.verb, name)]

\* the error of a failed command dropped
RunGitSwallow(cmd, name, done, exitZero) ==
    [cmds |-> <<cmd>>, out |-> done, err |-> NoError]

\* cmd.Run() of a terminal command, the error wrapping and the success line
RunGit(cmd, name, done, exitZero) ==
    IF exitZero
    THEN [cmds |-> <<cmd>>, out |-> done, err |-> NoError]
    ELSE [cmds |-> <<cmd>>, out |-> <<>>, err |-> Failed(cmd.verb, name)]

\* what ran and was printed before a step, put in front of the step's result
After(cmds, out, r) ==
    [cmds |-> cmds \o r.cmds, out |-> out \o r.out, err |-> r.err]

\* the empty default branch not special-cased
NoDefaultBranchIgnored(defaultBranch) == FALSE

NoDefaultBranch(defaultBranch) == defaultBranch = <<>>

\* strings.EqualFold in place of ==
BranchMatchesFold(currentBranch, defaultBranch) ==
    ToLower(currentBranch) = ToLower(defaultBranch)

BranchMatches(currentBranch, defaultBranch) == currentBranch = defaultBranch

\* the method honoured for private repositories only
CloneURLForPublicHTTPS(config) ==
    IF ~config.Repository.Private THEN config.Repository.CloneURL
    ELSE IF config.Method = CloneMethodSSH THEN config.Repository.SSHURL
    ELSE HttpsScheme \o config.Token \o AtGitHub \o config.Organization
         \o Slash \o config.Repository.Name \o DotGit

\* the token left out of the private URL
CloneURLForNoToken(config) ==
    IF config.Method = CloneMethodSSH
    THEN config.Repository.SSHURL
    ELSE config.Repository.CloneURL

\* the token embedded for every repository in http mode
CloneURLForAlwaysToken(config) ==
    IF config.Method = CloneMethodSSH
    THEN config.Repository.SSHURL
    ELSE HttpsScheme \o config.Token \o AtGitHub \o config.Organization
         \o Slash \o config.Repository.Name \o DotGit

\* the token URL used for private repositories in ssh mode too
CloneURLForTokenInSSH(config) ==
    IF config.Repository.Private
    THEN HttpsScheme \o config.Token \o AtGitHub \o config.Organization
         \o Slash \o config.Repository.Name \o DotGit
    ELSE IF config.Method = CloneMethodSSH
         THEN config.Repository.SSHURL
         ELSE config.Repository.CloneURL

CloneURLFor(config) ==
    IF config.Method = CloneMethodSSH
    THEN config.Repository.SSHURL
    ELSE IF config.Repository.Private
         THEN HttpsScheme \o config.Token \o AtGitHub \o config.Organization
              \o Slash \o config.Repository.Name \o DotGit
         ELSE config.Repository.CloneURL

\* the branch query's error returned instead of falling back to fetch
OnBranchErrorAbort(config, repoPath, exitZero) ==
    [cmds |-> <<>>, out |-> <<"warn_branch_undeterminable">>,
     err |-> Failed("branch", config.Repository.Name)]

OnBranchError(config, repoPath, exitZero) ==
    After(<<>>, <<"warn_branch_undeterminable", "fetch_instead">>,
          RunGit(GitFetch(repoPath), config.Repository.Name, <<"fetched">>, exitZero))

UpdateExisting(config, repoPath, d, exitZero) ==
    LET name == config.Repository.Name
        defaultBranch == config.Repository.DefaultBranch
        q == getCurrentBranch(d)
    IN IF NoDefaultBranch(defaultBranch)
       THEN After(<<>>, <<"exists", "warn_no_default_branch", "fetch_instead">>,
                  RunGit(GitFetch(repoPath), name, <<"fetched">>, exitZero))
       ELSE IF q.err
            THEN After(<<GitBranch(repoPath)>>, <<"exists">>,
                       OnBranchError(config, repoPath, exitZero))
            ELSE IF BranchMatches(q.branch, defaultBranch)
                 THEN After(<<GitBranch(repoPath)>>, <<"exists", "on_default_pull">>,
                            RunGit(GitPull(repoPath), name, <<"pulled">>, exitZero))
                 ELSE After(<<GitBranch(repoPath)>>, <<"exists", "not_default_fetch">>,
                            RunGit(GitFetch(repoPath), name, <<"fetched">>, exitZero))

CloneRepo(config, d, exitZero) ==
    LET repoPath == Join(config.TargetDir, config.Repository.Name)
    IN IF StatOK(d)
       THEN UpdateExisting(config, repoPath, d, exitZero)
       ELSE RunGit(GitClone(CloneURLFor(config), repoPath), config.Repository.Name,
                   <<>>, exitZero)

---------------------------------------------------------------------------
(* FetchAllRepos: the listing endpoint and the pagination loop *)

PerPage == 100

\* the records the endpoint lists in the fetch model
ListedRepos(org) == {Repo(org, <<"r">>, FALSE, Main), Repo(org, <<"g">>, TRUE, NoBranch)}

SeqsUpTo(S, n) == UNION {[1..k -> S] : k \in 0..n}

\* a listing is a sequence of pages, a page a sequence of records; a page past
\* the end of the listing is empty
Listings(org) == SeqsUpTo(SeqsUpTo(ListedRepos(org), MaxPageLen), MaxPages)

\* an endpoint that holds the pages of a listing and answers every index past
\* them with the empty page
Finite(listing) == [pages |-> listing, rest |-> <<>>]

\* an endpoint that answers every index past its pages with one more page of
\* records
Endless(listing, page) == [pages |-> listing, rest |-> page]

NoListing == Finite(<<>>)

ServerPage(s, p) == IF p <= Len(s.pages) THEN s.pages[p] ELSE s.rest

TokenPrefix == <<"t", "o", "k", "e", "n", " ">>

BearerPrefix == <<"B", "e", "a", "r", "e", "r", " ">>

\* the header in the OAuth bearer form
AuthHeaderBearer(token) == BearerPrefix \o token

\* "token " + string(t)
AuthHeader(token) == TokenPrefix \o token

\* makeRequest: GET /orgs/<org>/repos?page=<page>&per_page=<perPage>&type=all
\* with the three headers set
Request(token, org, page) ==
    [method |-> "GET", org |-> org, page |-> page, perPage |-> PerPage,
     headers |-> [Authorization |-> AuthHeader(token),
                  Accept |-> "application/vnd.github.v3+json",
                  UserAgent |-> "GitHub-Repo-Cloner"]]

\* what a request can come back with: a transport error, a status other than
\* 200, a body that does not decode, or the page
Responses(s, p) ==
    {[kind |-> k, repos |-> <<>>] : k \in {"transport", "status", "decode"}}
        \cup {[kind |-> "ok", repos |-> ServerPage(s, p)]}

FetchIdle == [pc |-> "idle"]

\* the client holds the token it was made with; the call gets the organization
FetchBegin(token, org) ==
    [pc |-> "looping", token |-> token, org |-> org, page |-> 1, allRepos |-> <<>>,
     requests |-> <<>>, repos |-> <<>>, err |-> "none"]

\* a failed request returning what was fetched so far
OnFetchErrorPartial(f, kind) ==
    [f EXCEPT !.pc = "returned", !.repos = f.allRepos, !.err = kind]

\* return nil, fmt.Errorf(...)
OnFetchError(f, kind) ==
    [f EXCEPT !.pc = "returned", !.repos = <<>>, !.err = kind]

\* the new page put in front of the earlier ones
AccumulateFront(allRepos, repos) == repos \o allRepos

\* allRepos = append(allRepos, repos...)
Accumulate(allRepos, repos) == allRepos \o repos

\* the loop left after its first page
LastPageAny(repos) == TRUE

\* pagination ended by a page shorter than the page size
LastPageShort(repos) == Len(repos) < PerPage

\* if len(repos) == 0 { break }
LastPage(repos) == Len(repos) = 0

\* one iteration of the loop: the request, the response's checks, and either a
\* return or the next page
FetchStep(f, resp) ==
    LET f1 == [f EXCEPT !.requests = Append(@, Request(f.token, f.org, f.page))]
    IN IF resp.kind # "ok" THEN OnFetchError(f1, resp.kind)
       ELSE IF LastPage(resp.repos)
            THEN [f1 EXCEPT !.pc = "returned", !.repos = f1.allRepos, !.err = "none"]
            ELSE [f1 EXCEPT !.allRepos = Accumulate(@, resp.repos), !.page = @ + 1]

---------------------------------------------------------------------------
(* What the git subprocesses leave at the path *)

RemoteHeads == {Main, Dev}

\* git clone refuses a path it cannot use; a successful clone checks out the
\* remote's HEAD; a failed clone may leave a partially written directory;
\* pull and fetch keep the checked-out branch
GitLeaves(cmd, d, exitZero) ==
    IF cmd.verb = "clone" /\ d.kind = "absent"
    THEN IF exitZero THEN {Checkout(h) : h \in RemoteHeads}
         ELSE {Absent, Undeterminable} \cup {Checkout(h) : h \in RemoteHeads}
    ELSE {d}

GitCanSucceed(cmd, d) == ~(cmd.verb = "clone" /\ d.kind # "absent")

---------------------------------------------------------------------------
(* The state machine *)

NoCall == [called |-> FALSE]

ParseIdle == [pc |-> "idle"]

CliIdle == [pc |-> "idle"]

Init ==
    /\ disk \in [Paths -> LocalState]
    /\ run \in RunConfig
    /\ last = NoCall
    /\ server = NoListing
    /\ fetch = FetchIdle
    /\ parse = ParseIdle
    /\ cli = CliIdle

\* the call before this one had the same config and cloned successfully into
\* an absent path
ClonedBefore(config) ==
    /\ last.called
    /\ last.config = config
    /\ last.pre.kind = "absent"
    /\ last.exitZero
    /\ last.err = NoError

\* one CloneRepo call: what it runs and returns, and what its git subprocess
\* leaves at the path
CloneRepoEffect(config, exitZero) ==
    \E repoPath \in {Join(config.TargetDir, config.Repository.Name)} :
      \E r \in {CloneRepo(config, disk[repoPath], exitZero)} :
        LET d == disk[repoPath]
            terminal == r.cmds[Len(r.cmds)]
        IN /\ exitZero => GitCanSucceed(terminal, d)
           /\ \E after \in GitLeaves(terminal, d, exitZero) :
                 /\ disk' = [disk EXCEPT ![repoPath] = after]
                 /\ last' = [called |-> TRUE, config |-> config, path |-> repoPath,
                             pre |-> d, exitZero |-> exitZero,
                             cmds |-> r.cmds, out |-> r.out, err |-> r.err,
                             post |-> after,
                             afterClone |-> ClonedBefore(config)]

CloneRepoCall ==
    \E repo \in Repository(run.Organization), exitZero \in BOOLEAN :
      \E config \in {CloneConfig(run, repo)} :
        /\ CloneRepoEffect(config, exitZero)
        /\ UNCHANGED <<run, server, fetch, parse, cli>>

Next == CloneRepoCall

Spec == Init /\ [][Next]_vars

---------------------------------------------------------------------------
(* The fetcher on its own: one FetchAllRepos call against every listing *)

FetchRunConfig ==
    [TargetDir : {TargetDir}, Token : {<<c>> : c \in TokenChars},
     Organization : OrganizationName, Method : {CloneMethodSSH}]

InitFetch ==
    /\ disk = [p \in Paths |-> Absent]
    /\ run \in FetchRunConfig
    /\ last = NoCall
    /\ server \in {Finite(l) : l \in Listings(run.Organization)}
    /\ fetch = FetchIdle
    /\ parse = ParseIdle
    /\ cli = CliIdle

FetchAllRepos ==
    /\ fetch.pc = "idle"
    /\ fetch' = FetchBegin(run.Token, run.Organization)
    /\ UNCHANGED <<disk, run, last, server, parse, cli>>

FetchPage ==
    /\ fetch.pc = "looping"
    /\ fetch.page <= MaxRequests
    /\ fetch' = FetchStep(fetch, [kind |-> "ok", repos |-> ServerPage(server, fetch.page)])
    /\ UNCHANGED <<disk, run, last, server, parse, cli>>

FetchPageFails ==
    /\ fetch.pc = "looping"
    /\ fetch.page <= MaxRequests
    /\ \E resp \in Responses(server, fetch.page) :
          /\ resp.kind # "ok"
          /\ fetch' = FetchStep(fetch, resp)
    /\ UNCHANGED <<disk, run, last, server, parse, cli>>

NextFetch == FetchAllRepos \/ FetchPage \/ FetchPageFails

SpecFetch == InitFetch /\ [][NextFetch]_vars

---------------------------------------------------------------------------
(* The fetcher against endpoints that run out of pages and endpoints that   *)
(* never do; the loop keeps running and every request is answered           *)

LiveRunConfig == {r \in FetchRunConfig : r.Organization = <<"o">> /\ r.Token = <<"g">>}

\* the page an endless endpoint answers past its listing
MorePage(org) == <<Repo(org, <<"r">>, FALSE, Main)>>

InitFetchLive ==
    /\ disk = [p \in Paths |-> Absent]
    /\ run \in LiveRunConfig
    /\ last = NoCall
    /\ server \in {Finite(l) : l \in Listings(run.Organization)}
                    \cup {Endless(l, MorePage(run.Organization)) :
                            l \in Listings(run.Organization)}
    /\ fetch = FetchIdle
    /\ parse = ParseIdle
    /\ cli = CliIdle

SpecFetchLive ==
    /\ InitFetchLive
    /\ [][NextFetch]_vars
    /\ WF_vars(FetchAllRepos)
    /\ WF_vars(FetchPage \/ FetchPageFails)

---------------------------------------------------------------------------
(* ParseCloneMethod on its own: one call for every argument *)

FlagChars == {"s", "S", "h", "H"}

ParseInputs ==
    UNION {[1..k -> FlagChars] : k \in 0..MaxFlagLen}
        \cup {Http, Rsync, <<"H", "T", "T", "P">>, <<"H", "t", "t", "p">>,
              <<"h", "t", "t", "p", "s">>, <<"s", "s", "h", " ">>, <<"h", "t", "p">>}

InitParse ==
    /\ disk = [p \in Paths |-> Absent]
    /\ run \in FetchRunConfig
    /\ last = NoCall
    /\ server = NoListing
    /\ fetch = FetchIdle
    /\ parse \in [pc : {"input"}, s : ParseInputs]
    /\ cli = CliIdle

ParseCloneMethodCall ==
    /\ parse.pc = "input"
    /\ \E r \in {ParseCloneMethod(parse.s)} :
          parse' = [pc |-> "returned", s |-> parse.s, method |-> r.method, err |-> r.err]
    /\ UNCHANGED <<disk, run, last, server, fetch, cli>>

NextParse == ParseCloneMethodCall

SpecParse == InitParse /\ [][NextParse]_vars

---------------------------------------------------------------------------
(* The command: token check, listing, then one CloneRepo call per record *)

\* CloneRepo's test of the method string: "ssh" takes the SSH branch, every
\* other string the HTTP branch
MethodOfFlag(cloneMethod) ==
    IF cloneMethod = Ssh THEN CloneMethodSSH ELSE CloneMethodHTTP

\* gitgrab.CloneRepo(repo, targetDir, token, orgName, cloneMethod)
FlagConfig(r, repo) ==
    [Repository |-> repo, TargetDir |-> r.TargetDir, Token |-> r.Token,
     Organization |-> r.Organization, Method |-> MethodOfFlag(r.Flag)]

\* the names the listing endpoint returns in the runs of the command
AB == <<"a", "/", "b">>

RunNames == {<<"r">>, <<"g">>, DotDot, <<>>, AB}

RunPaths == {Join(TargetDir, n) : n \in RunNames}

\* the listings served in the runs of the command
RunListings(org) ==
    LET rPub == Repo(org, <<"r">>, FALSE, Main)
        gPriv == Repo(org, <<"g">>, TRUE, Main)
    IN {<<>>,
        << <<rPub, gPriv>> >>,
        << <<gPriv>>, <<rPub>> >>,
        << <<gPriv, gPriv>> >>,
        << <<gPriv, rPub, gPriv>> >>,
        << <<Repo(org, DotDot, FALSE, Main), rPub>> >>,
        << <<Repo(org, <<>>, TRUE, NoBranch)>> >>,
        << <<Repo(org, AB, TRUE, Main)>> >>}

\* the environment, the arguments and the flags of one run: --org may be
\* missing, or given with any value; --method defaults to "ssh"
CommandLine ==
    {c \in [TargetDir : {TargetDir}, Token : {<<>>, <<"g">>},
            OrgFlagSet : BOOLEAN, Organization : {<<>>, <<"o">>},
            Flag : {Ssh, Http, Rsync, <<"S", "S", "H">>},
            GitInstalled : BOOLEAN, DirCreatable : BOOLEAN] :
        ~c.OrgFlagSet => c.Organization = <<>>}

CliStart ==
    [pc |-> "start", repos |-> <<>>, i |-> 0, successCount |-> 0,
     failureCount |-> 0, synced |-> <<>>, exit |-> 0, msg |-> "none"]

Exit(c, code, msg) == [c EXCEPT !.pc = "exited", !.exit = code, !.msg = msg]

InitRun ==
    /\ run \in CommandLine
    /\ disk \in {d \in [RunPaths -> {Absent, Undeterminable, Checkout(Main)}] :
                    /\ d[TargetDir] = Undeterminable
                    /\ d[Dot] = Undeterminable
                    /\ d[Join(TargetDir, AB)] = Absent}
    /\ last = NoCall
    /\ server \in {Finite(l) : l \in RunListings(run.Organization)}
    /\ fetch = FetchIdle
    /\ parse = ParseIdle
    /\ cli = CliStart

\* what stops the command before it lists anything
Rejection(r) ==
    IF ~r.OrgFlagSet THEN "required_flag_org"
    ELSE IF r.Token = <<>> THEN "token_required"
    ELSE IF ~r.GitInstalled THEN "git_not_installed"
    ELSE IF ~r.DirCreatable THEN "mkdir_failed"
    ELSE "none"

RunRejects ==
    /\ cli.pc = "start"
    /\ Rejection(run) # "none"
    /\ cli' = Exit(cli, 1, Rejection(run))
    /\ UNCHANGED <<disk, run, last, server, fetch, parse>>

RunFetches ==
    /\ cli.pc = "start"
    /\ Rejection(run) = "none"
    /\ cli' = [cli EXCEPT !.pc = "fetching"]
    /\ fetch' = FetchBegin(run.Token, run.Organization)
    /\ UNCHANGED <<disk, run, last, server, parse>>

\* a failed fetch taken as the pages read so far
AfterFetchPartial(c, f) ==
    IF f.err # "none"
    THEN [c EXCEPT !.pc = "syncing", !.repos = f.allRepos, !.i = 1]
    ELSE IF Len(f.repos) = 0 THEN Exit(c, 0, "no_repositories")
    ELSE [c EXCEPT !.pc = "syncing", !.repos = f.repos, !.i = 1]

\* repos, err := client.FetchAllRepos(orgName) and the two checks after it
AfterFetch(c, f) ==
    IF f.err # "none" THEN Exit(c, 1, "error_fetching")
    ELSE IF Len(f.repos) = 0 THEN Exit(c, 0, "no_repositories")
    ELSE [c EXCEPT !.pc = "syncing", !.repos = f.repos, !.i = 1]

RunFetchFailed ==
    /\ cli.pc = "fetching"
    /\ fetch.pc = "returned"
    /\ fetch.err # "none"
    /\ cli' = AfterFetch(cli, fetch)
    /\ UNCHANGED <<disk, run, last, server, fetch, parse>>

RunNoRepos ==
    /\ cli.pc = "fetching"
    /\ fetch.pc = "returned"
    /\ fetch.err = "none"
    /\ Len(fetch.repos) = 0
    /\ cli' = AfterFetch(cli, fetch)
    /\ UNCHANGED <<disk, run, last, server, fetch, parse>>

RunFound ==
    /\ cli.pc = "fetching"
    /\ fetch.pc = "returned"
    /\ fetch.err = "none"
    /\ Len(fetch.repos) > 0
    /\ cli' = AfterFetch(cli, fetch)
    /\ UNCHANGED <<disk, run, last, server, fetch, parse>>

\* the loop left at the first failure
NextIndexAbort(i, err, n) == IF err = NoError THEN i + 1 ELSE n + 1

\* for i, repo := range repos
NextIndex(i, err, n) == i + 1

\* a counter incremented whatever the call returned
CountAlways(n, hit) == n + 1

\* successCount++ / failureCount++ in the branch taken
Count(n, hit) == IF hit THEN n + 1 ELSE n

RunSync ==
    /\ cli.pc = "syncing"
    /\ cli.i <= Len(cli.repos)
    /\ \E exitZero \in BOOLEAN :
         \E config \in {FlagConfig(run, cli.repos[cli.i])} :
           /\ CloneRepoEffect(config, exitZero)
           /\ cli' = [cli EXCEPT
                        !.i = NextIndex(cli.i, last'.err, Len(cli.repos)),
                        !.successCount = Count(@, last'.err = NoError),
                        !.failureCount = Count(@, last'.err # NoError),
                        !.synced = Append(@, [repo |-> cli.repos[cli.i],
                                              ok |-> last'.err = NoError,
                                              call |-> last'])]
    /\ UNCHANGED <<run, server, fetch, parse>>

RunCompleted ==
    /\ cli.pc = "syncing"
    /\ cli.i > Len(cli.repos)
    /\ cli' = Exit(cli, 0, "completed")
    /\ UNCHANGED <<disk, run, last, server, fetch, parse>>

NextRun ==
    \/ RunRejects
    \/ RunFetches
    \/ FetchPage
    \/ FetchPageFails
    \/ RunFetchFailed
    \/ RunNoRepos
    \/ RunFound
    \/ RunSync
    \/ RunCompleted

SpecRun == InitRun /\ [][NextRun]_vars

---------------------------------------------------------------------------
(* Properties of CloneRepo *)

TerminalVerbs == {"clone", "pull", "fetch"}

Verbs(cmds) == [i \in 1..Len(cmds) |-> cmds[i].verb]

\* the number of places where t occurs in s
Occurrences(s, t) ==
    Cardinality({i \in 1..(Len(s) - Len(t) + 1) : SubSeq(s, i, i + Len(t) - 1) = t})

Cloned == last.called /\ last.cmds[1].verb = "clone"

ClonedURL == last.cmds[1].args[1]

\* C1: a path that exists when CloneRepo is called receives only the branch
\* query, pull and fetch, never git clone, and is left as it was.
C1_ExistingPathNeverCloned ==
    (last.called /\ last.pre.kind # "absent") =>
        /\ \A i \in 1..Len(last.cmds) : last.cmds[i].verb \in {"branch", "pull", "fetch"}
        /\ disk[last.path] = last.pre

\* C2: a call on an absent path runs exactly git clone <url> <path>, the path
\* being the base directory joined with the repository name, and nothing else.
C2_AbsentGoesToClone ==
    (last.called /\ last.pre.kind = "absent") =>
        /\ Len(last.cmds) = 1
        /\ last.cmds[1].verb = "clone"
        /\ Len(last.cmds[1].args) = 2
        /\ last.cmds[1].args[2] = last.config.TargetDir \o Slash \o last.config.Repository.Name

C2_Witness ==
    /\ last.called
    /\ last.pre.kind = "absent"
    /\ last.cmds[1].verb = "clone"
    /\ last.exitZero

\* C3: with the path present, a non-empty default branch and a successful
\* branch query, the call pulls exactly when the current branch is the default
\* branch character for character, and fetches without pulling otherwise.
C3_PullIffSameBranch ==
    (/\ last.called
     /\ StatOK(last.pre)
     /\ last.config.Repository.DefaultBranch # <<>>
     /\ last.pre.kind = "repo") =>
        IF last.pre.head = last.config.Repository.DefaultBranch
        THEN last.cmds = <<GitBranch(last.path), GitPull(last.path)>>
        ELSE last.cmds = <<GitBranch(last.path), GitFetch(last.path)>>

C3_Witness ==
    /\ last.called
    /\ last.pre = Checkout(MainUpper)
    /\ last.config.Repository.DefaultBranch = Main
    /\ Verbs(last.cmds) = <<"branch", "fetch">>

\* C4: with the path present and an empty default branch the call warns and
\* fetches, whatever the local branch state; it neither queries the branch nor pulls.
C4_EmptyDefaultFetches ==
    (/\ last.called
     /\ StatOK(last.pre)
     /\ last.config.Repository.DefaultBranch = <<>>) =>
        /\ last.cmds = <<GitFetch(last.path)>>
        /\ \E i \in 1..Len(last.out) : last.out[i] = "warn_no_default_branch"

C4_Witness ==
    /\ last.called
    /\ last.pre = Checkout(NoBranch)
    /\ last.config.Repository.DefaultBranch = <<>>
    /\ Verbs(last.cmds) = <<"fetch">>

\* C5: a failed branch query is a warning: the call falls back to fetch, never
\* pulls, succeeds whenever the fetch exits zero, and fails only with the fetch.
C5_BranchQueryFailureFetches ==
    (/\ last.called
     /\ last.pre.kind = "undeterminable"
     /\ last.config.Repository.DefaultBranch # <<>>) =>
        /\ last.cmds = <<GitBranch(last.path), GitFetch(last.path)>>
        /\ \E i \in 1..Len(last.out) : last.out[i] = "warn_branch_undeterminable"
        /\ last.exitZero => last.err = NoError
        /\ last.err # NoError => (~last.exitZero /\ last.err.failed = "fetch")

C5_Witness ==
    /\ last.called
    /\ last.pre.kind = "undeterminable"
    /\ last.config.Repository.DefaultBranch = Main
    /\ last.exitZero
    /\ last.err = NoError

\* C6: every call runs exactly one of clone, pull and fetch, as its last
\* subprocess, also when that subprocess fails.
C6_ExactlyOneTerminal ==
    last.called =>
        /\ Cardinality({i \in 1..Len(last.cmds) : last.cmds[i].verb \in TerminalVerbs}) = 1
        /\ last.cmds[Len(last.cmds)].verb \in TerminalVerbs

C6_Witness ==
    /\ last.called
    /\ ~last.exitZero
    /\ last.err # NoError
    /\ Verbs(last.cmds) = <<"branch", "pull">>

---------------------------------------------------------------------------
(* Properties of the clone URL *)

C8_TokenOccursOnce ==
    (Cloned /\ last.config.Method = CloneMethodHTTP /\ last.config.Repository.Private) =>
        /\ ClonedURL = HttpsScheme \o last.config.Token \o <<"@">> \o GitHubHost \o Slash
                       \o last.config.Organization \o Slash
                       \o last.config.Repository.Name \o DotGit
        /\ Occurrences(ClonedURL, last.config.Token) = 1

\* C8 amended: for a private repository in http mode the URL given to git
\* clone is https://<token>@github.com/<org>/<name>.git: the token stands
\* right after "https://" and right before "@github.com/", and may occur
\* again in the rest of the URL.
C8_TokenBeforeAt ==
    (Cloned /\ last.config.Method = CloneMethodHTTP /\ last.config.Repository.Private) =>
        LET token == last.config.Token
            n == Len(HttpsScheme)
        IN /\ ClonedURL = HttpsScheme \o token \o <<"@">> \o GitHubHost \o Slash
                          \o last.config.Organization \o Slash
                          \o last.config.Repository.Name \o DotGit
           /\ SubSeq(ClonedURL, n + 1, n + Len(token)) = token
           /\ ClonedURL[n + Len(token) + 1] = "@"
           /\ Occurrences(ClonedURL, token) >= 1

C8_Witness ==
    /\ Cloned
    /\ last.config.Method = CloneMethodHTTP
    /\ last.config.Repository.Private
    /\ Occurrences(ClonedURL, last.config.Token) > 1

\* C9 as stated: for a public repository in http mode the URL given to git
\* clone is the record's HTTPS clone URL and the token occurs nowhere in it.
C9_PublicURLWithoutTokenText ==
    (Cloned /\ last.config.Method = CloneMethodHTTP /\ ~last.config.Repository.Private) =>
        /\ ClonedURL = last.config.Repository.CloneURL
        /\ Occurrences(ClonedURL, last.config.Token) = 0

\* C9 amended: for a public repository in http mode the URL given to git
\* clone is the record's HTTPS clone URL verbatim, so the token occurs in it
\* only where the record's clone URL has those characters.
C9_PublicURLVerbatim ==
    (Cloned /\ last.config.Method = CloneMethodHTTP /\ ~last.config.Repository.Private) =>
        /\ ClonedURL = last.config.Repository.CloneURL
        /\ Occurrences(ClonedURL, last.config.Token)
             = Occurrences(last.config.Repository.CloneURL, last.config.Token)

C9_Witness ==
    /\ Cloned
    /\ last.config.Method = CloneMethodHTTP
    /\ ~last.config.Repository.Private
    /\ Occurrences(ClonedURL, last.config.Token) > 0

\* C10: a public repository is cloned from the record's HTTPS clone URL
\* whether the method is ssh or http.
C10_PublicAlwaysHTTPS ==
    (Cloned /\ ~last.config.Repository.Private) =>
        ClonedURL = last.config.Repository.CloneURL

---------------------------------------------------------------------------
(* Properties of CloneRepo's result *)

\* C11: the call returns no error exactly when its terminal subprocess exits
\* zero; otherwise the error names the repository and the verb of the command
\* that ran, that command is the call's last subprocess, and pull and fetch
\* leave the path as it was.
C11_ErrorIffNonZeroExit ==
    last.called =>
        LET terminal == last.cmds[Len(last.cmds)]
        IN /\ (last.err = NoError) <=> last.exitZero
           /\ ~last.exitZero =>
                 /\ terminal.verb \in TerminalVerbs
                 /\ last.err = [failed |-> terminal.verb,
                                name |-> last.config.Repository.Name]
                 /\ \A i \in 1..(Len(last.cmds) - 1) : last.cmds[i].verb = "branch"
                 /\ terminal.verb # "clone" => disk[last.path] = last.pre

C11_Witness ==
    /\ last.called
    /\ ~last.exitZero
    /\ last.err = [failed |-> "fetch", name |-> last.config.Repository.Name]
    /\ last.pre.kind = "undeterminable"

\* C12: a call that directly follows a successful clone of the same config
\* into an absent path never clones: it pulls when the branch the clone checked
\* out is the record's non-empty default branch and fetches otherwise, and it
\* returns no error when that pull or fetch exits zero.
C12_SecondCallUpdates ==
    (last.called /\ last.afterClone) =>
        /\ \A i \in 1..Len(last.cmds) : last.cmds[i].verb # "clone"
        /\ last.pre.kind = "repo"
        /\ IF /\ last.config.Repository.DefaultBranch # <<>>
              /\ last.pre.head = last.config.Repository.DefaultBranch
           THEN last.cmds[Len(last.cmds)] = GitPull(last.path)
           ELSE last.cmds[Len(last.cmds)] = GitFetch(last.path)
        /\ last.exitZero => last.err = NoError

C12_Witness ==
    /\ last.called
    /\ last.afterClone
    /\ Verbs(last.cmds) = <<"branch", "pull">>
    /\ last.exitZero
    /\ last.err = NoError

\* the one call that needs the token: a clone of a private repository in
\* http mode
TokenNecessary ==
    /\ Cloned
    /\ last.config.Method = CloneMethodHTTP
    /\ last.config.Repository.Private

\* the token's text occurs in some argument of some subprocess
ArgsHoldToken(cmds, token) ==
    \E i \in 1..Len(cmds) :
        \E j \in 1..Len(cmds[i].args) : Occurrences(cmds[i].args[j], token) > 0

\* the subprocesses the same call would have run with another token
CmdsWithToken(token) ==
    CloneRepo([last.config EXCEPT !.Token = token], last.pre, last.exitZero).cmds

\* C21 as stated: the token's text occurs in the arguments of a subprocess
\* only for a clone of a private repository in http mode, and every other
\* call runs the same subprocesses whatever the token.
C21_TokenTextOnlyWhenNecessary ==
    (last.called /\ ~TokenNecessary) =>
        /\ ~ArgsHoldToken(last.cmds, last.config.Token)
        /\ \A t \in GitHubToken : CmdsWithToken(t) = last.cmds

\* C21 amended: a clone in ssh mode, a clone of a public repository, a branch
\* query, a pull and a fetch run with arguments that do not depend on the
\* token: the same call with any other token runs identical subprocesses.
\* The clone of a private repository in http mode is the only one whose
\* arguments change with the token.
C21_ArgsIndependentOfToken ==
    last.called =>
        /\ ~TokenNecessary => \A t \in GitHubToken : CmdsWithToken(t) = last.cmds
        /\ TokenNecessary =>
              \A t \in GitHubToken : t # last.config.Token => CmdsWithToken(t) # last.cmds

C21_Witness ==
    /\ Cloned
    /\ last.config.Method = CloneMethodSSH
    /\ last.config.Repository.Private
    /\ last.config.Token = <<"@", "g">>
    /\ CmdsWithToken(<<"g">>) = last.cmds

\* C26: a path counts as present exactly when os.Stat succeeds on it. A path
\* on which os.Stat fails, whether it does not exist or exists and cannot be
\* examined, is cloned into; a path on which it succeeds, whether a checkout,
\* a plain file or a directory that is no repository, gets pull or fetch and
\* no clone.
C26_PresentIffStatSucceeds ==
    last.called =>
        /\ last.pre.kind \in {"absent", "inaccessible"} =>
              Verbs(last.cmds) = <<"clone">>
        /\ last.pre.kind \in {"undeterminable", "repo"} =>
              /\ \A i \in 1..Len(last.cmds) : last.cmds[i].verb # "clone"
              /\ last.cmds[Len(last.cmds)].verb \in {"pull", "fetch"}
        /\ last.pre.kind = "undeterminable" =>
              last.cmds[Len(last.cmds)].verb = "fetch"

C26_Witness ==
    /\ last.called
    /\ last.pre = Inaccessible
    /\ Verbs(last.cmds) = <<"clone">>
    /\ ~last.exitZero
    /\ disk[last.path] = Inaccessible

---------------------------------------------------------------------------
(* Properties of FetchAllRepos *)

RECURSIVE ConcatPages(_, _)
ConcatPages(listing, n) ==
    IF n = 0 THEN <<>> ELSE ConcatPages(listing, n - 1) \o listing[n]

\* the number of non-empty pages before the first empty one
LeadingPages(listing) ==
    CHOOSE n \in 0..Len(listing) :
        /\ \A k \in 1..n : listing[k] # <<>>
        /\ n < Len(listing) => listing[n + 1] = <<>>

\* C13: a fetch whose requests all succeed returns, without error, the pages
\* before the first empty page concatenated in page order and in-page order;
\* for a listing whose first page is empty it returns the empty sequence.
C13_ReturnsConcatenation ==
    (fetch.pc = "returned" /\ fetch.err = "none") =>
        /\ fetch.repos = ConcatPages(server.pages, LeadingPages(server.pages))
        /\ ServerPage(server, 1) = <<>> => fetch.repos = <<>>

C13_Witness ==
    /\ fetch.pc = "returned"
    /\ fetch.err = "none"
    /\ Len(server.pages) = 2
    /\ Len(server.pages[1]) = 2
    /\ server.pages[1][1] # server.pages[1][2]
    /\ server.pages[2] # <<>>
    /\ Len(fetch.repos) > 2

\* C14: a request that fails by transport error, status or decoding ends the
\* fetch at once with an error and no records, whatever earlier pages held,
\* and it is the last request: it is not repeated and no page follows it.
C14_AllOrNothing ==
    (fetch.pc = "returned" /\ fetch.err # "none") =>
        /\ fetch.repos = <<>>
        /\ Len(fetch.requests) = fetch.page
        /\ \A k \in 1..Len(fetch.requests) : fetch.requests[k].page = k
        /\ \A k \in 1..(fetch.page - 1) : ServerPage(server, k) # <<>>

C14_Witness ==
    /\ fetch.pc = "returned"
    /\ fetch.err = "status"
    /\ fetch.page = 2
    /\ fetch.allRepos # <<>>
    /\ fetch.repos = <<>>

\* C22: every listing request issued, on every page, is a GET carrying
\* Authorization "token <the client's token>", Accept
\* "application/vnd.github.v3+json" and User-Agent "GitHub-Repo-Cloner".
C22_RequestHeaders ==
    fetch.pc # "idle" =>
        \A k \in 1..Len(fetch.requests) :
            /\ fetch.requests[k].method = "GET"
            /\ fetch.requests[k].headers.Authorization
                 = <<"t", "o", "k", "e", "n", " ">> \o run.Token
            /\ fetch.requests[k].headers.Accept = "application/vnd.github.v3+json"
            /\ fetch.requests[k].headers.UserAgent = "GitHub-Repo-Cloner"

C22_Witness ==
    /\ fetch.pc = "returned"
    /\ Len(fetch.requests) = 3
    /\ run.Token = <<"@">>
    /\ fetch.requests[3].headers.Authorization = <<"t", "o", "k", "e", "n", " ", "@">>

\* C23: the requests carry the page indices 1, 2, 3, ... in order, each
\* once, all with page size 100; the loop goes on after a page of fewer than
\* 100 records and a fetch that succeeds after k non-empty pages has issued
\* exactly k+1 requests, the last one answered by the first empty page.
C23_ConsecutivePages ==
    fetch.pc # "idle" =>
        /\ \A k \in 1..Len(fetch.requests) :
              /\ fetch.requests[k].page = k
              /\ fetch.requests[k].perPage = 100
        /\ fetch.pc = "looping" =>
              /\ Len(fetch.requests) = fetch.page - 1
              /\ \A k \in 1..Len(fetch.requests) : ServerPage(server, k) # <<>>
        /\ (fetch.pc = "returned" /\ fetch.err = "none") =>
              /\ Len(fetch.requests) = LeadingPages(server.pages) + 1
              /\ ServerPage(server, Len(fetch.requests)) = <<>>
              /\ \A k \in 1..(Len(fetch.requests) - 1) : ServerPage(server, k) # <<>>

C23_Witness ==
    /\ fetch.pc = "returned"
    /\ fetch.err = "none"
    /\ Len(fetch.requests) = 3
    /\ Len(server.pages[1]) = 1
    /\ Len(server.pages[2]) = 2
    /\ Len(server.pages[1]) < PerPage

---------------------------------------------------------------------------
(* Properties of ParseCloneMethod *)

\* two characters that are the same letter in either case
SameLetter(c, d) ==
    \/ c = d
    \/ \E i \in 1..Len(UpperLetters) :
          {c, d} = {UpperLetters[i], LowerLetters[i]}

EqualFold(s, t) ==
    /\ Len(s) = Len(t)
    /\ \A i \in 1..Len(s) : SameLetter(s[i], t[i])

\* C15: ParseCloneMethod returns the ssh mode and no error for a string equal
\* to "ssh" whatever its case, the http mode and no error for one equal to
\* "http" whatever its case, and for every other string an error together
\* with the ssh mode.
C15_ParseCloneMethod ==
    parse.pc = "returned" =>
        /\ EqualFold(parse.s, Ssh) =>
              parse.method = CloneMethodSSH /\ parse.err = NoParseError
        /\ EqualFold(parse.s, Http) =>
              parse.method = CloneMethodHTTP /\ parse.err = NoParseError
        /\ (~EqualFold(parse.s, Ssh) /\ ~EqualFold(parse.s, Http)) =>
              parse.method = CloneMethodSSH /\ parse.err.invalid

C15_Witness ==
    /\ parse.pc = "returned"
    /\ parse.s = <<"S", "s", "H">>
    /\ parse.method = CloneMethodSSH
    /\ parse.err = NoParseError

---------------------------------------------------------------------------
(* Properties of the command *)

\* C16: a method flag other than "ssh" and "http" is rejected: the run ends
\* with an error and CloneRepo is never called with it, so no clone URL is
\* built from it.
C16_InvalidMethodRejected ==
    ~(run.Flag \in {Ssh, Http}) =>
        /\ ~last.called
        /\ cli.pc = "exited" => cli.exit # 0

\* a method string ParseCloneMethod would refuse
InvalidMethod(flag) == ~EqualFold(flag, Ssh) /\ ~EqualFold(flag, Http)

ConfigurationError(r) ==
    \/ r.Token = <<>>
    \/ r.Organization = <<>>
    \/ InvalidMethod(r.Flag)

\* C17: in a run with an empty token, an empty organization name or an
\* invalid method, no listing request is issued and no git subprocess is
\* started, and the run ends with an error.
C17_ConfigurationErrorsFirst ==
    ConfigurationError(run) =>
        /\ fetch.pc = "idle"
        /\ ~last.called
        /\ cli.pc = "exited" => cli.exit # 0

\* C18: when FetchAllRepos has failed, CloneRepo is called for no repository,
\* the records of the pages read before the failure included, and the run
\* can only end with exit code 1.
C18_FetchErrorFatal ==
    (cli.pc # "start" /\ fetch.pc = "returned" /\ fetch.err # "none") =>
        /\ cli.pc \in {"fetching", "exited"}
        /\ cli.synced = <<>>
        /\ ~last.called
        /\ cli.pc = "exited" => cli.exit = 1

C18_Witness ==
    /\ cli.pc = "exited"
    /\ cli.exit = 1
    /\ fetch.pc = "returned"
    /\ fetch.err = "decode"
    /\ fetch.allRepos # <<>>
    /\ ~last.called

\* C19: once the list is fetched, the records CloneRepo has been called with
\* are the first i-1 records of the list, in order and one call each,
\* whatever the calls returned; the run ends only after the last record, with
\* every call counted as a success or a failure.
C19_OneCallPerRecord ==
    (cli.pc \in {"syncing", "exited"} /\ fetch.pc = "returned"
        /\ fetch.err = "none" /\ Len(fetch.repos) > 0) =>
        /\ Len(cli.synced) = cli.i - 1
        /\ Len(cli.synced) <= Len(fetch.repos)
        /\ \A k \in 1..Len(cli.synced) : cli.synced[k].repo = fetch.repos[k]
        /\ cli.successCount + cli.failureCount = Len(cli.synced)
        /\ cli.failureCount = Cardinality({k \in 1..Len(cli.synced) : ~cli.synced[k].ok})
        /\ cli.pc = "exited" =>
              /\ Len(cli.synced) = Len(fetch.repos)
              /\ cli.exit = 0

C19_Witness ==
    /\ cli.pc = "exited"
    /\ Len(cli.synced) = 2
    /\ ~cli.synced[1].ok
    /\ cli.synced[2].ok
    /\ cli.failureCount = 1

\* a path made of the base directory, one separator and one name
DirectChild(path, dir) ==
    /\ Len(path) > Len(dir) + 1
    /\ SubSeq(path, 1, Len(dir) + 1) = dir \o Slash
    /\ \A k \in (Len(dir) + 2)..Len(path) : <<path[k]>> # Slash
    /\ ~(SubSeq(path, Len(dir) + 2, Len(path)) \in {Dot, DotDot})

\* C20: every name CloneRepo is called with is free of path separators and
\* the path it works on is a direct child of the base directory.
C20_PathIsDirectChild ==
    last.called =>
        /\ \A k \in 1..Len(last.config.Repository.Name) :
              <<last.config.Repository.Name[k]>> # Slash
        /\ DirectChild(last.path, last.config.TargetDir)


\* one more CloneRepo call has been made in this step
SyncStep == Len(cli'.synced) = Len(cli.synced) + 1

\* the run of two records, the first public and the second private, in ssh
\* mode, both paths absent when their call is made and both clones exiting
\* zero
TwoCloneScenario ==
    /\ cli.pc = "exited"
    /\ cli.msg = "completed"
    /\ run.Flag = Ssh
    /\ Len(cli.repos) = 2
    /\ ~cli.repos[1].Private
    /\ cli.repos[2].Private
    /\ \A k \in 1..2 :
          /\ cli.synced[k].call.pre = Absent
          /\ cli.synced[k].call.exitZero

FailedCloneLeft(call) ==
    /\ call.cmds[1].verb = "clone"
    /\ call.err # NoError
    /\ call.pre.kind = "absent"
    /\ call.post.kind # "absent"

\* C25: after a failed clone has left a directory at a path, every later
\* call of the run for that path finds the directory as it was left, runs no
\* clone, ends with pull or fetch, and leaves the directory in place.
C25_PartialCloneNotRepaired ==
    \A j \in 1..Len(cli.synced) :
        \A k \in (j + 1)..Len(cli.synced) :
            LET first == cli.synced[j].call
                later == cli.synced[k].call
            IN (FailedCloneLeft(first) /\ later.path = first.path) =>
                  /\ later.pre = first.post
                  /\ \A i \in 1..Len(later.cmds) : later.cmds[i].verb # "clone"
                  /\ later.cmds[Len(later.cmds)].verb \in {"pull", "fetch"}
                  /\ later.post = later.pre
                  /\ disk[later.path] = first.post

C25_Witness ==
    /\ Len(cli.synced) = 3
    /\ FailedCloneLeft(cli.synced[1].call)
    /\ cli.synced[1].call.post = Undeterminable
    /\ cli.synced[3].call.path = cli.synced[1].call.path
    /\ Verbs(cli.synced[3].call.cmds) = <<"branch", "fetch">>


---------------------------------------------------------------------------
(* Termination of FetchAllRepos *)

\* every page index is answered with at least one record
NeverEmpty(s) ==
    /\ s.rest # <<>>
    /\ \A k \in 1..Len(s.pages) : s.pages[k] # <<>>

\* some page index is answered with the empty page
RunsOut(s) == ~NeverEmpty(s)

\* C27: against an endpoint that answers some page with the empty list the
\* call returns, as it does when a request fails; against an endpoint that
\* answers every page with records it returns only by a failed request, and
\* while no request fails the page index passes every limit.
C27_ReturnsIffEmptyOrError ==
    /\ (RunsOut(server) /\ fetch.pc = "looping") ~> (fetch.pc = "returned")
    /\ [](fetch.pc = "returned" =>
             \/ fetch.err # "none"
             \/ /\ RunsOut(server)
                /\ ServerPage(server, fetch.page) = <<>>)
    /\ (NeverEmpty(server) /\ fetch.pc = "looping") ~>
          \/ fetch.pc = "looping" /\ fetch.page > MaxRequests
          \/ fetch.pc = "returned" /\ fetch.err # "none"

C27_Witness ==
    /\ NeverEmpty(server)
    /\ fetch.pc = "looping"
    /\ fetch.page > MaxRequests
    /\ Len(fetch.requests) = MaxRequests
    /\ Len(server.pages) = 1

====
